---- MODULE Spec2Model ----
(***************************************************************************)
(* AgentRound: multi-model round-table discussion.                         *)
(*                                                                         *)
(* Model of src/src/token_manager.py (count_tokens, trim_history),         *)
(* src/src/api_client.py (get_batch_completions), src/src/discussion.py    *)
(* (DiscussionManager) and src/src/markdown_writer.py (MarkdownWriter).    *)
(*                                                                         *)
(* A text is a sequence of atoms; the tokenizer's encoded length of a text *)
(* is the number of its atoms.  A message is [role, content].              *)
(***************************************************************************)
EXTENDS Integers, Sequences, FiniteSets, TLC

\* ------------------------------------------------------------------ bounds
\* Longest History given to trim_history in TrimSpec.
MaxLen == 4
\* Largest max_context given to trim_history in TrimSpec.
MaxContext == 36

\* ------------------------------------------------- configuration (scaled)
\* Config.response_tokens (RESPONSE_TOKENS, default 2048), scaled down.
response_tokens == 5

\* ---------------------------------------------------------------- helpers
Roles == {"system", "user", "assistant"}

Msg(r, c) == [role |-> r, content |-> c]

RemoveAt(s, i) == SubSeq(s, 1, i - 1) \o SubSeq(s, i + 1, Len(s))

\* len(self.encoder.encode(content)): one token per atom of the text.
EncodedLen(content) == Len(content)

\* ------------------------------------------------------------ TokenManager
\* The loop of count_tokens: total += 4 + encoded length, per message.
RECURSIVE CountFrom(_, _)
CountFrom(total, msgs) ==
    IF msgs = <<>> THEN total
    ELSE CountFrom(total + 4 + EncodedLen(Head(msgs).content), Tail(msgs))

\* count_tokens without line 102, the overhead of the whole list.
count_tokens_no_list_overhead(msgs) == CountFrom(0, msgs)

\* count_tokens with "total = ..." written for "total += ..." in the loop.
count_tokens_overwrite(msgs) ==
    IF msgs = <<>> THEN 2
    ELSE EncodedLen(msgs[Len(msgs)].content) + 2

\* TokenManager.count_tokens: 4 per message + encoded content, + 2 overall.
count_tokens(msgs) == CountFrom(0, msgs) + 2

\* Index of the first message whose role is not system; 0 when there is none
\* (the for/else of trim_history).
FirstNonSystem(msgs) ==
    IF \E i \in 1..Len(msgs) : msgs[i].role /= "system"
    THEN CHOOSE i \in 1..Len(msgs) :
            /\ msgs[i].role /= "system"
            /\ \A j \in 1..(i - 1) : msgs[j].role = "system"
    ELSE 0

\* The loop popping the newest non-system message instead of the oldest.
RECURSIVE TrimLoopNewestFirst(_, _)
TrimLoopNewestFirst(msgs, available) ==
    IF count_tokens(msgs) > available /\ Len(msgs) > 2
    THEN IF \E j \in 1..Len(msgs) : msgs[j].role /= "system"
         THEN LET i == CHOOSE j \in 1..Len(msgs) :
                          /\ msgs[j].role /= "system"
                          /\ \A q \in (j + 1)..Len(msgs) :
                                msgs[q].role = "system"
              IN TrimLoopNewestFirst(RemoveAt(msgs, i), available)
         ELSE msgs
    ELSE msgs

\* The while loop with the floor "len(messages) > 2" written as "> 3".
RECURSIVE TrimLoopFloor3(_, _)
TrimLoopFloor3(msgs, available) ==
    IF count_tokens(msgs) > available /\ Len(msgs) > 3
    THEN LET i == FirstNonSystem(msgs) IN
         IF i = 0 THEN msgs
         ELSE TrimLoopFloor3(RemoveAt(msgs, i), available)
    ELSE msgs

\* The while loop with the floor "len(messages) > 2" written as "> 1".
RECURSIVE TrimLoopFloor1(_, _)
TrimLoopFloor1(msgs, available) ==
    IF count_tokens(msgs) > available /\ Len(msgs) > 1
    THEN LET i == FirstNonSystem(msgs) IN
         IF i = 0 THEN msgs
         ELSE TrimLoopFloor1(RemoveAt(msgs, i), available)
    ELSE msgs

\* The while loop written as an if: at most one message is dropped per call.
TrimLoopOnce(msgs, available) ==
    IF count_tokens(msgs) > available /\ Len(msgs) > 2
    THEN LET i == FirstNonSystem(msgs) IN
         IF i = 0 THEN msgs ELSE RemoveAt(msgs, i)
    ELSE msgs

\* The loop popping index 0 whatever its role.
RECURSIVE TrimLoopPopFirst(_, _)
TrimLoopPopFirst(msgs, available) ==
    IF count_tokens(msgs) > available /\ Len(msgs) > 2
    THEN TrimLoopPopFirst(Tail(msgs), available)
    ELSE msgs

\* The loop overwriting the first non-system message with the last one and
\* dropping the last (swap-remove): the survivors change places.
RECURSIVE TrimLoopSwap(_, _)
TrimLoopSwap(msgs, available) ==
    IF count_tokens(msgs) > available /\ Len(msgs) > 2
    THEN LET i == FirstNonSystem(msgs) IN
         IF i = 0 THEN msgs
         ELSE IF i < Len(msgs)
              THEN TrimLoopSwap(
                     SubSeq(msgs, 1, i - 1) \o <<msgs[Len(msgs)]>>
                        \o SubSeq(msgs, i + 1, Len(msgs) - 1), available)
              ELSE TrimLoopSwap(RemoveAt(msgs, i), available)
    ELSE msgs

\* trim_history, lines 152-175: while over budget and more than 2 messages,
\* pop the first non-system message; stop when there is none.
RECURSIVE TrimLoop(_, _)
TrimLoop(msgs, available) ==
    IF count_tokens(msgs) > available /\ Len(msgs) > 2
    THEN LET i == FirstNonSystem(msgs) IN
         IF i = 0 THEN msgs
         ELSE TrimLoop(RemoveAt(msgs, i), available)
    ELSE msgs

\* trim_history cutting the History at its end until it fits.
RECURSIVE trim_history_tail(_, _)
trim_history_tail(msgs, max_ctx) ==
    IF count_tokens(msgs) <= max_ctx - response_tokens \/ Len(msgs) <= 1
    THEN msgs
    ELSE trim_history_tail(SubSeq(msgs, 1, Len(msgs) - 1), max_ctx)

\* TokenManager.trim_history(messages, max_context).
trim_history(msgs, max_ctx) ==
    LET available == max_ctx - response_tokens IN
    IF count_tokens(msgs) <= available THEN msgs
    ELSE TrimLoop(msgs, available)

\* -------------------------------------------------------------- dict model
\* A Python dict is a sequence of [k, v] entries in insertion order; assigning
\* to a present key keeps its place and replaces its value.
DictHas(d, k) == \E j \in 1..Len(d) : d[j].k = k

DictGet(d, k) == d[CHOOSE j \in 1..Len(d) : d[j].k = k].v

DictPut(d, k, v) ==
    IF DictHas(d, k)
    THEN [j \in 1..Len(d) |-> IF d[j].k = k THEN [k |-> k, v |-> v] ELSE d[j]]
    ELSE Append(d, [k |-> k, v |-> v])

DictKeys(d) == {d[j].k : j \in 1..Len(d)}

Range(s) == {s[j] : j \in 1..Len(s)}

RECURSIVE Flatten(_)
Flatten(ss) == IF ss = <<>> THEN <<>> ELSE Head(ss) \o Flatten(Tail(ss))

\* sep.join(parts)
RECURSIVE Join(_, _)
Join(sep, parts) ==
    IF parts = <<>> THEN <<>>
    ELSE IF Len(parts) = 1 THEN Head(parts)
    ELSE Head(parts) \o sep \o Join(sep, Tail(parts))

\* ------------------------------------------------------------------ inputs
\* What UIManager.select_models can return from the available models
\* A, B, C: any non-empty list of them, repetitions included.
ParticipantLists == {<<"A">>, <<"A", "B">>, <<"A", "A">>}

\* The participant list of Spec3: three distinct agents.
ThreeParticipants == {<<"A", "B", "C">>}

\* Config.max_tokens (MAX_TOKENS, default 32000), scaled down: one value under
\* which a two-message History is already over budget, one under which
\* Histories are trimmed from the second round on, one never reached.
MaxTokensChoices == {24, 40, 200}

\* Config.max_workers (MAX_WORKERS, default 5), scaled down so that a batch of
\* three requests exceeds it.
max_workers == 2

\* UIManager.prompt_human_guidance: "" (skip) or a text.
GuidanceTexts == {<<"guide">>}

\* Rounds run in one discussion (cumulative_round), initial rounds and extra
\* rounds asked for at one extension point.
MaxRounds == 2
MaxExtra == 2

topic == "topic"

\* The templates PromptTemplates formats with str.format; each is read from
\* the environment (SYSTEM_PROMPT, FIRST_ROUND_PROMPT, DISCUSSION_PROMPT,
\* HUMAN_GUIDE_PROMPT) and may hold a placeholder format() cannot fill.
TemplateKinds == {"system", "first", "discussion", "guide"}

\* ----------------------------------------------------------- PromptTemplates
\* Each template is rendered as its marker atom, the substituted fields in
\* the order they occur in the template, and its closing marker.
format_system_prompt(model_name, participants) ==
    <<"SYSTEM", model_name, topic>> \o participants \o <<"RULES">>

format_first_round_prompt(current_round, total, remaining, model_name) ==
    <<"FIRST", ToString(current_round), ToString(total), ToString(remaining),
      model_name, topic>>

format_discussion_prompt(current_round, total, remaining, others_text) ==
    <<"DISCUSS", ToString(current_round), ToString(total), ToString(remaining)>>
        \o others_text \o <<"CONTINUE">>

format_human_guide_prompt(h) == <<"HUMAN">> \o h \o <<"ADJUST">>

format_summary_prompt == <<"SUMMARY">>

\* --------------------------------------------------------------- APIClient
\* The completion gateway (client.chat.completions.create): the reply is
\* a function of the request; usage is the token count of the messages sent
\* and the encoded length of the reply.
GatewayReply(msgs, model_id) ==
    LET text == <<"reply", model_id, ToString(Len(msgs))>>
    IN <<text, count_tokens(msgs), EncodedLen(text)>>

GatewayError == "timeout"

\* The marker written without the error: "[请求失败]".
FailureMarkerBare(e) == <<"[request failed]">>

\* f"[请求失败: {e}]"
FailureMarker(e) == <<"[request failed:", e, "]">>

\* "[无回复]"
NoReply == <<"[no reply]">>

\* Line 225 storing the size of the request as the usage of a failure.
StoreResultCharged(res, f) ==
    IF f.ok
    THEN DictPut(res, f.model_id, f.result)
    ELSE DictPut(res, f.model_id,
                 <<FailureMarker(f.error), count_tokens(f.msgs), 0>>)

\* get_batch_completions lines 213-225: what the collection loop stores for a
\* finished future f.
StoreResult(res, f) ==
    IF f.ok
    THEN DictPut(res, f.model_id, f.result)
    ELSE DictPut(res, f.model_id, <<FailureMarker(f.error), 0, 0>>)

\* ----------------------------------------------------------- MarkdownWriter
write_header(participants, max_tok) ==
    << <<"#", "record">>, <<>>, <<">", "topic:", topic>>,
       <<">", "participants:">> \o participants,
       <<">", "limit:", ToString(max_tok)>>, <<>>, <<"---">>, <<>> >>

add_round_header(round_label, h) ==
    << <<"##">> \o round_label, <<>> >>
      \o (IF h /= <<>>
          THEN << <<"###", "Human">>, <<>>, <<">">> \o h, <<>> >>
          ELSE <<>>)

add_model_response(model_id, content) ==
    << <<"###", model_id>>, <<>>, content, <<>> >>

add_token_stats(pt, ct) ==
    << <<">", "tokens", "prompt:", ToString(pt), "completion:", ToString(ct)>>,
       <<>>, <<"---">>, <<>> >>

add_summary_header == << <<"##", "Final Summary">>, <<>> >>

\* add_statistics_table adding the block's title to every row.
add_statistics_table_titled(rounds, num_models, pt, ct) ==
    << <<"##", "Statistics">>, <<>>,
       <<"##", "Statistics">>, <<"|", "Total Rounds", "|", ToString(rounds), "|">>,
       <<"##", "Statistics">>, <<"|", "Models", "|", ToString(num_models), "|">>,
       <<"##", "Statistics">>, <<"|", "Total Tokens", "|", ToString(pt + ct), "|">>,
       <<>> >>

add_statistics_table(rounds, num_models, pt, ct) ==
    << <<"---">>, <<>>, <<"##", "Statistics">>, <<>>,
       <<"|", "Metric", "|", "Value", "|">>, <<"|--|--|">>,
       <<"|", "Total Rounds", "|", ToString(rounds), "|">>,
       <<"|", "Models", "|", ToString(num_models), "|">>,
       <<"|", "Prompt Tokens", "|", ToString(pt), "|">>,
       <<"|", "Completion Tokens", "|", ToString(ct), "|">>,
       <<"|", "Total Tokens", "|", ToString(pt + ct), "|">>, <<>> >>

\* ---------------------------------------------------------- DiscussionManager
\* _build_others_text: one block f"---\n【{id}】:\n{text}" per other agent
\* present in last_responses, in chosen_models order, joined by "\n\n".
build_others_text(chosen, last, exclude_model_id) ==
    LET keep == SelectSeq(chosen,
                  LAMBDA c : c /= exclude_model_id /\ DictHas(last, c))
        parts == [j \in 1..Len(keep) |->
                    <<"---", keep[j], ":">> \o DictGet(last, keep[j])]
    IN Join(<<"/">>, parts)

\* Line 200 with the test left out: every round takes the else branch.
PromptKindNoFirst(r) == "discussion"

\* Line 200: the template the round's prompt is made from.
PromptKind(r) ==
    IF r.round_idx = 1 /\ r.last_responses = <<>> THEN "first"
    ELSE "discussion"

\* run_round lines 200-217: the prompt of this round for model_id.
RoundPrompt(chosen, r, model_id) ==
    LET remaining == r.total_rounds - r.round_idx IN
    IF PromptKind(r) = "first"
    THEN format_first_round_prompt(r.round_idx, r.total_rounds, remaining,
                                   model_id)
    ELSE format_discussion_prompt(r.round_idx, r.total_rounds, remaining,
            build_others_text(chosen, r.last_responses, model_id))

\* run_round lines 253-255.
RoundLabel(r) ==
    <<"round", ToString(r.round_idx), "/", ToString(r.total_rounds)>>
      \o (IF r.human_input /= <<>> THEN <<"(with guidance)">> ELSE <<>>)

\* run_round line 264 written "for model_id in results": arrival order.
RenderOrderArrival(chosen, res) == [j \in 1..Len(res) |-> res[j].k]

\* run_round line 264: the render loop iterates chosen_models.
RenderOrder(chosen, res) == chosen

\* run_round lines 264-268: one sub-section per iterated id;
\* responses.get(model_id, "[无回复]").
RenderResponses(order, resp) ==
    Flatten([j \in 1..Len(order) |->
        add_model_response(order[j],
            IF DictHas(resp, order[j]) THEN DictGet(resp, order[j])
            ELSE NoReply)])

\* ------------------------------------------------------------------- state
VARIABLES
    chosen_models,            \* DiscussionManager.chosen_models (ids)
    bad_template,             \* the template with an unknown placeholder, or
                              \* "none"
    max_tokens,               \* Config.max_tokens
    history,                  \* DiscussionManager.history: id -> messages
    total_prompt_tokens,      \* TokenLedger
    total_completion_tokens,
    lines,                    \* MarkdownWriter.lines
    file,                     \* content of MarkdownWriter.filename on disk
    pc,                       \* position of the control thread
    cumulative_round,         \* run_discussion locals
    total_rounds,
    last_responses,
    batch_left,               \* iterations left of "for _ in range(batch_rounds)"
    extra,                    \* last answer of prompt_extra_rounds
    human_input,              \* last answer of prompt_human_guidance
    asked_at,                 \* cumulative_round when they were last asked
                              \* (-1: not asked yet)
    round,                    \* run_round's arguments and return address
    i,                        \* index of the "for model in chosen_models" loops
    requests,                 \* run_round / run_summary local
    responses,                \* run_round local
    results,                  \* get_batch_completions local, then its result
    futures,                  \* future_to_model: one entry per submitted task
    caller,                   \* who called get_batch_completions
    messages,                 \* TrimSpec: the History given to trim_history
    max_context,              \* TrimSpec: the max_context given
    trimmed,                  \* TrimSpec: trim_history(messages, max_context)
    retrimmed,                \* TrimSpec: trim_history(trimmed, max_context)
    extended,                 \* TrimSpec: messages + [m]
    tpc,                      \* TrimSpec: position
    token_count,              \* CountSpec: count_tokens(messages)
    others_chosen,            \* OthersSpec: the chosen_models of the manager
    others_last,              \* OthersSpec: the last_responses given
    others_exclude,           \* OthersSpec: the exclude_model_id given
    others_text,              \* OthersSpec: _build_others_text(last, exclude)
    opc                       \* OthersSpec: position

configv == <<chosen_models, max_tokens, bad_template>>
ledgerv == <<total_prompt_tokens, total_completion_tokens>>
writerv == <<lines, file>>
driverv == <<cumulative_round, total_rounds, last_responses, batch_left,
             extra, human_input, asked_at>>
roundv  == <<round, i, requests, responses>>
batchv  == <<results, futures, caller>>
trimv   == <<messages, max_context, trimmed, retrimmed, extended, tpc,
             token_count>>
mainv   == <<configv, history, ledgerv, writerv, pc, driverv, roundv, batchv>>
othersv == <<others_chosen, others_last, others_exclude, others_text, opc>>
purev   == <<trimv, othersv>>
vars    == <<mainv, purev>>

N == Len(chosen_models)

NoRound == [round_idx |-> 0, total_rounds |-> 0, last_responses |-> <<>>,
            human_input |-> <<>>, ret |-> "none"]

\* _initialize_history: one system message per chosen model id.
initialize_history(chosen) ==
    [m \in Range(chosen) |->
        <<Msg("system", format_system_prompt(m, chosen))>>]

TrimIdle ==
    /\ messages = <<>> /\ max_context = 0 /\ trimmed = <<>>
    /\ retrimmed = <<>> /\ extended = <<>> /\ tpc = "idle"
    /\ token_count = 0

OthersIdle ==
    /\ others_chosen = <<>> /\ others_last = <<>> /\ others_exclude = ""
    /\ others_text = <<>> /\ opc = "idle"

\* template.format(...) returns when every placeholder of the template is
\* one of the keyword arguments given, and raises KeyError otherwise.
Formats(kind) == bad_template /= kind

\* DiscussionManager.__init__ (and MarkdownWriter.__init__): the state in
\* which run_discussion is called, or, when _initialize_history raises on the
\* system template, the state in which main() catches the exception.
InitFrom(participant_lists, max_tokens_choices, bad_choices) ==
    /\ chosen_models \in participant_lists
    /\ max_tokens \in max_tokens_choices
    /\ bad_template \in bad_choices
    /\ history = IF Formats("system") THEN initialize_history(chosen_models)
                 ELSE <<>>
    /\ total_prompt_tokens = 0
    /\ total_completion_tokens = 0
    /\ lines = write_header(chosen_models, max_tokens)
    /\ file = <<>>
    /\ pc = IF Formats("system") THEN "start" ELSE "failed"
    /\ cumulative_round = 0
    /\ total_rounds = 0
    /\ last_responses = <<>>
    /\ batch_left = 0
    /\ extra = 0
    /\ human_input = <<>>
    /\ asked_at = -1
    /\ round = NoRound
    /\ i = 0
    /\ requests = <<>>
    /\ responses = <<>>
    /\ results = <<>>
    /\ futures = <<>>
    /\ caller = "none"

\* Construction with the default templates.
InitWith(participant_lists, max_tokens_choices) ==
    InitFrom(participant_lists, max_tokens_choices, {"none"})

Init == InitWith(ParticipantLists, MaxTokensChoices) /\ TrimIdle /\ OthersIdle

Init3 == InitWith(ThreeParticipants, {40}) /\ TrimIdle /\ OthersIdle

\* ------------------------------------------------------------ run_discussion
\* The call run_round(round_idx, total, last, human_input=h), to return to ret.
CallRound(idx, total, last, h, ret) ==
    /\ round' = [round_idx |-> idx, total_rounds |-> total,
                 last_responses |-> last, human_input |-> h, ret |-> ret]
    /\ i' = 1
    /\ requests' = <<>>
    /\ responses' = <<>>
    /\ pc' = "build"

\* run_discussion lines 359-361.
Start(initial_rounds) ==
    /\ pc = "start"
    /\ cumulative_round' = 0
    /\ total_rounds' = initial_rounds
    /\ last_responses' = <<>>
    /\ pc' = "loop"
    /\ UNCHANGED <<configv, history, ledgerv, writerv, batch_left, extra,
                   human_input, asked_at, roundv, batchv, purev>>

\* Line 366-367: batch_rounds = total_rounds - cumulative_round; range() of a
\* negative number is empty.
LoopTop ==
    /\ pc = "loop"
    /\ batch_left' = IF total_rounds - cumulative_round > 0
                     THEN total_rounds - cumulative_round ELSE 0
    /\ pc' = "for"
    /\ UNCHANGED <<configv, history, ledgerv, writerv, cumulative_round,
                   total_rounds, last_responses, extra, human_input, asked_at,
                   roundv, batchv, purev>>

\* Lines 368-369 with "cumulative_round += 1" after the call of run_round.
ForNextLateIncrement ==
    /\ pc = "for"
    /\ batch_left > 0
    /\ batch_left' = batch_left - 1
    /\ cumulative_round' = cumulative_round + 1
    /\ CallRound(cumulative_round, total_rounds, last_responses, <<>>,
                 "for")
    /\ UNCHANGED <<configv, history, ledgerv, writerv, total_rounds,
                   last_responses, extra, human_input, asked_at, batchv,
                   purev>>

\* Lines 367-373: one iteration of the for loop, up to the call of run_round.
ForNext ==
    /\ pc = "for"
    /\ batch_left > 0
    /\ batch_left' = batch_left - 1
    /\ cumulative_round' = cumulative_round + 1
    /\ CallRound(cumulative_round + 1, total_rounds, last_responses, <<>>,
                 "for")
    /\ UNCHANGED <<configv, history, ledgerv, writerv, total_rounds,
                   last_responses, extra, human_input, asked_at, batchv,
                   purev>>

\* The for loop is exhausted: lines 376-384 reach prompt_continue.
ForExit ==
    /\ pc = "for"
    /\ batch_left = 0
    /\ pc' = "ask"
    /\ UNCHANGED <<configv, history, ledgerv, writerv, driverv, roundv,
                   batchv, purev>>

\* Lines 384-385: prompt_continue answers no.
Decline ==
    /\ pc = "ask"
    /\ pc' = "summary"
    /\ UNCHANGED <<configv, history, ledgerv, writerv, driverv, roundv,
                   batchv, purev>>

\* Line 389 written "total_rounds = extra".
PlainTotalExtraOnly(cum, e) == e

\* Line 389: total_rounds = cumulative_round + extra.
PlainTotal(cum, e) == cum + e

\* Lines 388-393 with empty guidance.
ExtendPlain(e) ==
    /\ pc = "ask"
    /\ cumulative_round + e <= MaxRounds
    /\ extra' = e
    /\ human_input' = <<>>
    /\ asked_at' = cumulative_round
    /\ total_rounds' = PlainTotal(cumulative_round, e)
    /\ pc' = "loop"
    /\ UNCHANGED <<configv, history, ledgerv, writerv, cumulative_round,
                   last_responses, batch_left, roundv, batchv, purev>>

\* Line 395 written without the "- 1".
GuidedTotalNoDecrement(cum, e) == cum + e

\* Line 395: total_rounds = cumulative_round + extra - 1, cumulative_round
\* being already incremented.
GuidedTotal(cum, e) == cum + e - 1

\* Lines 388-401 with guidance h: the guided round is called at once.
ExtendGuided(e, h) ==
    /\ pc = "ask"
    /\ cumulative_round + 1 <= MaxRounds
    /\ cumulative_round + e <= MaxRounds
    /\ extra' = e
    /\ human_input' = h
    /\ asked_at' = cumulative_round
    /\ cumulative_round' = cumulative_round + 1
    /\ total_rounds' = GuidedTotal(cumulative_round + 1, e)
    /\ CallRound(cumulative_round + 1,
                 GuidedTotal(cumulative_round + 1, e),
                 last_responses, h, "loop")
    /\ UNCHANGED <<configv, history, ledgerv, writerv, last_responses,
                   batch_left, batchv, purev>>

\* ------------------------------------------------------------------ run_round
\* Lines 193-197: the guidance message, when guidance is given.
BuildGuidance ==
    /\ pc = "build"
    /\ IF round.human_input /= <<>> /\ ~Formats("guide")
       THEN /\ pc' = "failed"
            /\ UNCHANGED history
       ELSE /\ LET m == chosen_models[i] IN
               history' = IF round.human_input /= <<>>
                          THEN [history EXCEPT ![m] = Append(@,
                                  Msg("user",
                                      format_human_guide_prompt(
                                          round.human_input)))]
                          ELSE history
            /\ pc' = "prompt"
    /\ UNCHANGED <<configv, ledgerv, writerv, driverv, roundv, batchv, purev>>

\* Lines 200-219: the round's prompt; format() raises on a template it
\* cannot fill, and the exception leaves run_round and run_discussion.
AppendPrompt ==
    /\ pc = "prompt"
    /\ IF Formats(PromptKind(round))
       THEN /\ LET m == chosen_models[i] IN
               history' = [history EXCEPT ![m] = Append(@,
                             Msg("user", RoundPrompt(chosen_models, round, m)))]
            /\ pc' = "trim"
       ELSE /\ pc' = "failed"
            /\ UNCHANGED history
    /\ UNCHANGED <<configv, ledgerv, writerv, driverv, roundv, batchv, purev>>

\* Lines 222-232 with the batch call inside the loop: the requests gathered
\* so far are dispatched after each agent.
TrimAndEnqueueEager ==
    /\ pc = "trim"
    /\ LET m == chosen_models[i] IN
       /\ history' = [history EXCEPT ![m] = trim_history(@, max_tokens)]
       /\ requests' = Append(requests, m)
    /\ i' = i + 1
    /\ caller' = "run_round"
    /\ pc' = "submit"
    /\ UNCHANGED <<configv, ledgerv, writerv, driverv, round, responses,
                   results, futures, purev>>

\* Lines 222-232 raising when the trimmed History is still over the budget.
TrimAndEnqueueStrict ==
    /\ pc = "trim"
    /\ LET m == chosen_models[i]
           t == trim_history(history[m], max_tokens)
       IN /\ history' = [history EXCEPT ![m] = t]
          /\ IF count_tokens(t) > max_tokens - response_tokens
             THEN /\ pc' = "failed"
                  /\ UNCHANGED <<requests, i>>
             ELSE /\ requests' = Append(requests, m)
                  /\ i' = i + 1
                  /\ pc' = IF i = N THEN "submit" ELSE "build"
    /\ caller' = "run_round"
    /\ UNCHANGED <<configv, ledgerv, writerv, driverv, round, responses,
                   results, futures, purev>>

\* Lines 222-232: trim, and enqueue the request.  A request holds a reference
\* to the History list, which trim_history changes in place.
TrimAndEnqueue ==
    /\ pc = "trim"
    /\ LET m == chosen_models[i] IN
       /\ history' = [history EXCEPT ![m] = trim_history(@, max_tokens)]
       /\ requests' = Append(requests, m)
    /\ i' = i + 1
    /\ caller' = "run_round"
    /\ pc' = IF i = N THEN "submit" ELSE "build"
    /\ UNCHANGED <<configv, ledgerv, writerv, driverv, round, responses,
                   results, futures, purev>>

\* ------------------------------------------------------ get_batch_completions
NewFuture(model_id) ==
    [model_id |-> model_id, state |-> "queued", msgs |-> <<>>, ok |-> FALSE,
     result |-> <<<<>>, 0, 0>>, error |-> ""]

Running == {k \in 1..Len(futures) : futures[k].state = "running"}

\* Lines 196-208: every request is submitted to the executor.
SubmitAll ==
    /\ pc = "submit"
    /\ results' = <<>>
    /\ futures' = [k \in 1..Len(requests) |-> NewFuture(requests[k])]
    /\ pc' = "collect"
    /\ UNCHANGED <<configv, history, ledgerv, writerv, driverv, roundv, caller,
                   purev>>

\* A pool that starts a thread per task, whatever max_workers.
StartTaskUnbounded(k) ==
    /\ pc = "collect"
    /\ k \in 1..Len(futures)
    /\ futures[k].state = "queued"
    /\ \A j \in 1..(k - 1) : futures[j].state /= "queued"
    /\ futures' = [futures EXCEPT ![k].state = "running",
                                  ![k].msgs = history[futures[k].model_id]]
    /\ UNCHANGED <<configv, history, ledgerv, writerv, pc, driverv, roundv,
                   results, caller, purev>>

\* A worker of the pool takes the oldest queued task and calls
\* get_chat_completion with the messages the request refers to.
StartTask(k) ==
    /\ pc = "collect"
    /\ k \in 1..Len(futures)
    /\ futures[k].state = "queued"
    /\ \A j \in 1..(k - 1) : futures[j].state /= "queued"
    /\ Cardinality(Running) < max_workers
    /\ futures' = [futures EXCEPT ![k].state = "running",
                                  ![k].msgs = history[futures[k].model_id]]
    /\ UNCHANGED <<configv, history, ledgerv, writerv, pc, driverv, roundv,
                   results, caller, purev>>

\* get_chat_completion adding the usage to the ledger itself, in the worker.
CompleteAccounting(k, ok) ==
    /\ pc = "collect"
    /\ k \in 1..Len(futures)
    /\ futures[k].state = "running"
    /\ futures' = [futures EXCEPT
          ![k].state = "done",
          ![k].ok = ok,
          ![k].result = IF ok THEN GatewayReply(futures[k].msgs,
                                                futures[k].model_id)
                        ELSE @,
          ![k].error = IF ok THEN @ ELSE GatewayError]
    /\ total_prompt_tokens' = total_prompt_tokens
          + (IF ok THEN count_tokens(futures[k].msgs) ELSE 0)
    /\ UNCHANGED <<configv, history, total_completion_tokens, writerv, pc,
                   driverv, roundv, results, caller, purev>>

\* get_chat_completion returns (content, prompt_tokens, completion_tokens) or
\* raises.
Complete(k, ok) ==
    /\ pc = "collect"
    /\ k \in 1..Len(futures)
    /\ futures[k].state = "running"
    /\ futures' = [futures EXCEPT
          ![k].state = "done",
          ![k].ok = ok,
          ![k].result = IF ok THEN GatewayReply(futures[k].msgs,
                                                futures[k].model_id)
                        ELSE @,
          ![k].error = IF ok THEN @ ELSE GatewayError]
    /\ UNCHANGED <<configv, history, ledgerv, writerv, pc, driverv, roundv,
                   results, caller, purev>>

\* Lines 211-225: as_completed yields a finished future; its outcome is stored.
Collect(k) ==
    /\ pc = "collect"
    /\ k \in 1..Len(futures)
    /\ futures[k].state = "done"
    /\ futures' = [futures EXCEPT ![k].state = "collected"]
    /\ results' = StoreResult(results, futures[k])
    /\ UNCHANGED <<configv, history, ledgerv, writerv, pc, driverv, roundv,
                   caller, purev>>

\* The collection loop left as soon as no worker is busy.
NoneRunning(fs) == \A k \in 1..Len(fs) : fs[k].state /= "running"

\* The collection loop left at the first future yielded.
FirstYielded(fs) == \E k \in 1..Len(fs) : fs[k].state = "collected"

\* Line 211: "for future in as_completed(future_to_model)" ends when every
\* future was yielded.
AllYielded(fs) == \A k \in 1..Len(fs) : fs[k].state = "collected"

\* Line 235: every future was yielded; results is returned to the caller.
BatchReturn ==
    /\ pc = "collect"
    /\ AllYielded(futures)
    /\ i' = 1
    /\ pc' = IF caller = "run_round" THEN "commit" ELSE "sum_commit"
    /\ UNCHANGED <<configv, history, ledgerv, writerv, driverv, round,
                   requests, responses, batchv, purev>>

\* --------------------------------------------------------- run_round, go on
\* "total -= n" for "total += n".
SubUsage(total, n) == total - n

\* Lines 243-244 / 323-324: total += n.
AddUsage(total, n) == total + n

\* Lines 238-250: one iteration of the update loop.
Commit ==
    /\ pc = "commit"
    /\ LET m == chosen_models[i] IN
       IF DictHas(results, m)
       THEN LET r == DictGet(results, m) IN
            /\ responses' = DictPut(responses, m, r[1])
            /\ total_prompt_tokens' = AddUsage(total_prompt_tokens, r[2])
            /\ total_completion_tokens' =
                   AddUsage(total_completion_tokens, r[3])
            /\ history' = [history EXCEPT ![m] =
                              Append(@, Msg("assistant", r[1]))]
       ELSE UNCHANGED <<responses, ledgerv, history>>
    /\ i' = i + 1
    /\ pc' = IF i = N THEN "render" ELSE "commit"
    /\ UNCHANGED <<configv, writerv, driverv, round, requests, batchv, purev>>

\* save writing only the lines added since the header.
save_without_header(ls) ==
    Join(<<"\n">>, SubSeq(ls, 9, Len(ls)))

\* MarkdownWriter.save: "\n".join(self.lines) written to the file.
save(ls) == Join(<<"\n">>, ls)

\* Lines 253-279 with the render loop written "for model_id in results".
RenderAsCollected ==
    /\ pc = "render"
    /\ lines' = lines
          \o add_round_header(RoundLabel(round), round.human_input)
          \o RenderResponses([j \in 1..Len(results) |-> results[j].k],
                             responses)
          \o add_token_stats(total_prompt_tokens, total_completion_tokens)
    /\ file' = save(lines')
    /\ last_responses' = responses
    /\ pc' = round.ret
    /\ UNCHANGED <<configv, history, ledgerv, cumulative_round, total_rounds,
                   batch_left, extra, human_input, asked_at, roundv, batchv,
                   purev>>

\* Lines 253-279: the round's section is added and saved; responses is
\* returned and assigned to last_responses by the caller (lines 369, 396).
Render ==
    /\ pc = "render"
    /\ lines' = lines
          \o add_round_header(RoundLabel(round), round.human_input)
          \o RenderResponses(RenderOrder(chosen_models, results), responses)
          \o add_token_stats(total_prompt_tokens, total_completion_tokens)
    /\ file' = save(lines')
    /\ last_responses' = responses
    /\ pc' = round.ret
    /\ UNCHANGED <<configv, history, ledgerv, cumulative_round, total_rounds,
                   batch_left, extra, human_input, asked_at, roundv, batchv,
                   purev>>

\* ---------------------------------------------------------------- run_summary
\* Line 297.
SummaryHeader ==
    /\ pc = "summary"
    /\ lines' = lines \o add_summary_header
    /\ i' = 1
    /\ requests' = <<>>
    /\ pc' = "sum_prompt"
    /\ UNCHANGED <<configv, history, ledgerv, file, driverv, round, responses,
                   batchv, purev>>

\* Lines 303-304.
SummaryPrompt ==
    /\ pc = "sum_prompt"
    /\ LET m == chosen_models[i] IN
       history' = [history EXCEPT ![m] =
                      Append(@, Msg("user", format_summary_prompt))]
    /\ pc' = "sum_trim"
    /\ UNCHANGED <<configv, ledgerv, writerv, driverv, roundv, batchv, purev>>

\* Lines 305-313.
SummaryTrim ==
    /\ pc = "sum_trim"
    /\ LET m == chosen_models[i] IN
       /\ history' = [history EXCEPT ![m] = trim_history(@, max_tokens)]
       /\ requests' = Append(requests, m)
    /\ i' = i + 1
    /\ caller' = "run_summary"
    /\ pc' = IF i = N THEN "submit" ELSE "sum_prompt"
    /\ UNCHANGED <<configv, ledgerv, writerv, driverv, round, responses,
                   results, futures, purev>>

\* Lines 319-326: one iteration of the render loop of run_summary.
SummaryCommit ==
    /\ pc = "sum_commit"
    /\ LET m == chosen_models[i] IN
       IF DictHas(results, m)
       THEN LET r == DictGet(results, m) IN
            /\ total_prompt_tokens' = AddUsage(total_prompt_tokens, r[2])
            /\ total_completion_tokens' =
                   AddUsage(total_completion_tokens, r[3])
            /\ lines' = lines \o add_model_response(m, r[1])
       ELSE UNCHANGED <<ledgerv, lines>>
    /\ i' = i + 1
    /\ pc' = IF i = N THEN "stats" ELSE "sum_commit"
    /\ UNCHANGED <<configv, history, file, driverv, round, requests,
                   responses, batchv, purev>>

\* Lines 407-421 reporting total_rounds as the number of rounds.
FinishTotalRounds ==
    /\ pc = "stats"
    /\ lines' = lines \o add_statistics_table(total_rounds, N,
                            total_prompt_tokens, total_completion_tokens)
    /\ file' = save(lines')
    /\ pc' = "done"
    /\ UNCHANGED <<configv, history, ledgerv, driverv, roundv, batchv, purev>>

\* run_discussion lines 407-421: the statistics block, then save.
Finish ==
    /\ pc = "stats"
    /\ lines' = lines \o add_statistics_table(cumulative_round, N,
                            total_prompt_tokens, total_completion_tokens)
    /\ file' = save(lines')
    /\ pc' = "done"
    /\ UNCHANGED <<configv, history, ledgerv, driverv, roundv, batchv, purev>>

\* The steps of the program between two answers of the user.
Program ==
    \/ LoopTop
    \/ ForNext
    \/ ForExit
    \/ BuildGuidance
    \/ AppendPrompt
    \/ TrimAndEnqueue
    \/ SubmitAll
    \/ \E k \in 1..Len(futures) : StartTask(k)
    \/ \E k \in 1..Len(futures), ok \in BOOLEAN : Complete(k, ok)
    \/ \E k \in 1..Len(futures) : Collect(k)
    \/ BatchReturn
    \/ Commit
    \/ Render
    \/ SummaryHeader
    \/ SummaryPrompt
    \/ SummaryTrim
    \/ SummaryCommit
    \/ Finish

Next ==
    \/ \E r \in 0..MaxRounds : Start(r)
    \/ Decline
    \/ \E e \in 0..MaxExtra : ExtendPlain(e)
    \/ \E e \in 0..MaxExtra, h \in GuidanceTexts : ExtendGuided(e, h)
    \/ Program

Spec == Init /\ [][Next]_vars

\* The same program with three distinct participants, run for MaxRounds
\* initial rounds and not extended.
Next3 ==
    \/ Start(MaxRounds)
    \/ Decline
    \/ Program

Spec3 == Init3 /\ [][Next3]_vars

\* One round and the summary pass of three participants, the threads being
\* scheduled ever again and every gateway call returning or raising: the
\* control thread and the workers of the pool take their next step.
BatchNext ==
    \/ Start(1)
    \/ Decline
    \/ Program

BatchSpec == Init3 /\ [][BatchNext]_vars /\ WF_vars(Program)

\* The discussion of one agent whose user answers the prompts and at some
\* decision point declines to extend: main() calls run_discussion, the
\* control thread and the workers of the pool take their next step, every
\* gateway call returns or raises, and prompt_continue is answered "no" at
\* one of the decision points reached.
InitTerm == InitWith({<<"A">>}, {40}) /\ TrimIdle /\ OthersIdle

TermSpec ==
    /\ InitTerm
    /\ [][Next]_vars
    /\ WF_vars(\E r \in 0..MaxRounds : Start(r))
    /\ WF_vars(Program)
    /\ SF_vars(Decline)

\* The same program of two agents, one of the four formatted templates
\* holding a placeholder format() cannot fill.
InitPrompts ==
    InitFrom({<<"A", "B">>}, {200}, TemplateKinds) /\ TrimIdle /\ OthersIdle

PromptSpec == InitPrompts /\ [][Next]_vars

\* ------------------------------------------- trim_history on any History
\* The messages a History of TrimSpec is made of: any role, an empty or a
\* three-token content.
TrimMessages == {Msg(r, c) : r \in Roles, c \in {<<>>, <<"t", "t", "t">>}}

SeqsUpTo(S, n) == UNION {[1..k -> S] : k \in 0..n}

InitTrim ==
    /\ InitWith({<<"A">>}, {200})
    /\ OthersIdle
    /\ messages \in SeqsUpTo(TrimMessages, MaxLen)
    /\ max_context \in 0..MaxContext
    /\ trimmed = <<>>
    /\ retrimmed = <<>>
    /\ extended = <<>>
    /\ tpc = "input"
    /\ token_count = 0

\* trimmed = trim_history(messages, max_context)
ApplyTrim ==
    /\ tpc = "input"
    /\ trimmed' = trim_history(messages, max_context)
    /\ tpc' = "trimmed"
    /\ UNCHANGED <<mainv, othersv, token_count, messages, max_context, retrimmed, extended>>

\* retrimmed = trim_history(trimmed, max_context)
ApplyTrimAgain ==
    /\ tpc = "trimmed"
    /\ retrimmed' = trim_history(trimmed, max_context)
    /\ tpc' = "retrimmed"
    /\ UNCHANGED <<mainv, othersv, token_count, messages, max_context, trimmed, extended>>

\* extended = messages + [m]
AppendMessage(m) ==
    /\ tpc = "retrimmed"
    /\ extended' = Append(messages, m)
    /\ tpc' = "extended"
    /\ UNCHANGED <<mainv, othersv, token_count, messages, max_context, trimmed, retrimmed>>

NextTrim ==
    \/ ApplyTrim
    \/ ApplyTrimAgain
    \/ \E m \in TrimMessages : AppendMessage(m)

TrimSpec == InitTrim /\ [][NextTrim]_vars

\* ----------------------------------------------- count_tokens on any History
InitCount ==
    /\ InitWith({<<"A">>}, {200})
    /\ OthersIdle
    /\ messages \in SeqsUpTo(TrimMessages, MaxLen)
    /\ max_context = 0
    /\ trimmed = <<>>
    /\ retrimmed = <<>>
    /\ extended = <<>>
    /\ tpc = "uncounted"
    /\ token_count = 0

\* token_count = count_tokens(messages)
ApplyCount ==
    /\ tpc = "uncounted"
    /\ token_count' = count_tokens(messages)
    /\ tpc' = "counted"
    /\ UNCHANGED <<mainv, othersv, messages, max_context, trimmed, retrimmed,
                   extended>>

NextCount == ApplyCount

CountSpec == InitCount /\ [][NextCount]_vars

\* ------------------------------------- _build_others_text on any arguments
\* The participant lists select_models can return for the managers of
\* OthersSpec: two or three entries, in any order, an id chosen twice.
OthersLists ==
    {<<"A", "B">>, <<"B", "A">>, <<"A", "B", "C">>, <<"A", "A", "B">>}

OthersIds == {"A", "B", "C"}

\* The texts of a last_responses of OthersSpec.
OthersTexts == {<<"x">>, <<"y", "z">>}

\* The dicts run_round can return: distinct keys in any insertion order.
ResponseMaps ==
    {d \in SeqsUpTo([k : OthersIds, v : OthersTexts], 3) :
        \A a, b \in 1..Len(d) : d[a].k = d[b].k => a = b}

InitOthers ==
    /\ InitWith({<<"A">>}, {200})
    /\ TrimIdle
    /\ others_chosen \in OthersLists
    /\ others_last \in ResponseMaps
    /\ others_exclude \in OthersIds
    /\ others_text = <<>>
    /\ opc = "input"

\* others_text = self._build_others_text(last_responses, exclude_model_id)
ApplyOthers ==
    /\ opc = "input"
    /\ others_text' = build_others_text(others_chosen, others_last,
                                        others_exclude)
    /\ opc' = "built"
    /\ UNCHANGED <<mainv, trimv, others_chosen, others_last, others_exclude>>

NextOthers == ApplyOthers

OthersSpec == InitOthers /\ [][NextOthers]_vars

\* ================================================================== claims
NoDuplicates(chosen) ==
    \A a, b \in 1..Len(chosen) : chosen[a] = chosen[b] => a = b

\* The future of the current batch that carries model_id's request.
FutureOf(model_id) ==
    futures[CHOOSE k \in 1..Len(futures) : futures[k].model_id = model_id]

Assistants(msgs) == SelectSeq(msgs, LAMBDA x : x.role = "assistant")

\* C1: round isolation.  In a round of run_round in which one agent's request
\* failed and another's succeeded, the update loop appends exactly one
\* Assistant message (the reply) to the History of an agent whose request
\* succeeded and adds exactly its usage to both counters; for an agent whose
\* request failed it appends no Assistant message and adds nothing.
C1_RoundIsolation ==
    [][ ( /\ pc = "commit"
          /\ NoDuplicates(chosen_models)
          /\ \E k \in 1..Len(futures) : futures[k].ok
          /\ \E k \in 1..Len(futures) : ~futures[k].ok )
        => LET m == chosen_models[i]
               f == FutureOf(m)
           IN IF f.ok
              THEN /\ history'[m] =
                         Append(history[m], Msg("assistant", f.result[1]))
                   /\ total_prompt_tokens' = total_prompt_tokens + f.result[2]
                   /\ total_completion_tokens' =
                         total_completion_tokens + f.result[3]
              ELSE /\ Assistants(history'[m]) = Assistants(history[m])
                   /\ total_prompt_tokens' = total_prompt_tokens
                   /\ total_completion_tokens' = total_completion_tokens
      ]_vars

\* The agents whose request of the current batch succeeded.
Succeeded == {futures[k].model_id : k \in {j \in 1..Len(futures) : futures[j].ok}}

\* The ids of the blocks of an others_text inside a prompt: every block
\* starts "---", id.
BlockIds(content) ==
    LET at == SelectSeq([j \in 1..Len(content) |-> j],
                        LAMBDA j : content[j] = "---")
    IN [j \in 1..Len(at) |-> content[at[j] + 1]]

\* C2: the ResponseMap run_round returns holds an entry for an agent if and
\* only if the agent's request succeeded in this round, and the entry is the
\* reply; in the next round the others_text of an agent's Discussion prompt
\* names exactly the other agents that succeeded (it is empty when all the
\* others failed).
C2_ResponseMapOnlySuccessful ==
    /\ ( pc = "render" /\ NoDuplicates(chosen_models) )
         => /\ DictKeys(responses) = Succeeded
            /\ \A m \in Succeeded : DictGet(responses, m) = FutureOf(m).result[1]
    /\ ( /\ pc = "trim"
         /\ NoDuplicates(chosen_models)
         /\ round.round_idx > 1
         /\ Len(futures) = N )
         => LET m == chosen_models[i]
                prompt == history[m][Len(history[m])].content
            IN Range(BlockIds(prompt)) = Succeeded \ {m}

\* t is s with some elements removed: the survivors keep order and value.
RECURSIVE IsSubseq(_, _)
IsSubseq(t, s) ==
    IF t = <<>> THEN TRUE
    ELSE IF s = <<>> THEN FALSE
    ELSE IF Head(t) = Head(s) THEN IsSubseq(Tail(t), Tail(s))
    ELSE IsSubseq(t, Tail(s))

\* The ids of the agent sub-sections ("### id") of a Transcript, in order.
AgentHeaders(ls) ==
    LET hs == SelectSeq(ls, LAMBDA l : Len(l) = 2 /\ l[1] = "###"
                                        /\ l[2] /= "Human")
    IN [j \in 1..Len(hs) |-> hs[j][2]]

ResultKeys == [j \in 1..Len(results) |-> results[j].k]

\* C3: ordering.  Whatever the order in which the requests of a round
\* complete, the agent sub-sections appended to the Transcript for the rounds
\* list the agents in chosen_models order, round after round, and the blocks
\* of the others_text in the next round's prompt list agents in chosen_models
\* order.
C3_ParticipantOrder ==
    /\ pc \notin {"sum_commit", "stats", "done"}
         => LET hs == AgentHeaders(lines)
            IN \A j \in 1..Len(hs) : hs[j] = chosen_models[((j - 1) % N) + 1]
    /\ pc = "trim"
         => LET m == chosen_models[i]
                prompt == history[m][Len(history[m])].content
            IN IsSubseq(BlockIds(prompt), chosen_models)

\* Round 1 was collected in the order C, B, A; its section is in the
\* Transcript and A's round-2 prompt quotes B, then C.
C3_Witness ==
    /\ pc = "trim"
    /\ round.round_idx = 2
    /\ i = 1
    /\ ResultKeys = <<"C", "B", "A">>
    /\ AgentHeaders(lines) = <<"A", "B", "C">>
    /\ BlockIds(history["A"][Len(history["A"])].content) = <<"B", "C">>

Available == max_context - response_tokens

HasNonSystem(msgs) == \E j \in 1..Len(msgs) : msgs[j].role /= "system"

\* C4: trim floor.  For any History and budget, trim_history either removes
\* nothing or leaves at least 2 messages (so the length is never brought
\* under 2, with or without a non-System message left), and a System message
\* at index 0 stays at index 0.
C4_TrimFloor ==
    tpc /= "input" =>
        /\ Len(trimmed) < Len(messages) => Len(trimmed) >= 2
        /\ (Len(trimmed) < 2 /\ HasNonSystem(trimmed))
              => Len(trimmed) = Len(messages)
        /\ (messages /= <<>> /\ messages[1].role = "system")
              => (trimmed /= <<>> /\ trimmed[1] = messages[1])

\* A four-message History led by its System message was cut down to the
\* floor of 2 and is still over budget.
C4_Witness ==
    /\ tpc = "trimmed"
    /\ Len(messages) = 4
    /\ messages[1].role = "system"
    /\ Len(trimmed) = 2
    /\ count_tokens(trimmed) > Available

\* C5: trim idempotence.  trim_history(trim_history(h, b), b) =
\* trim_history(h, b).
C5_TrimIdempotent ==
    tpc \in {"retrimmed", "extended"} => retrimmed = trimmed

\* The first application removed two messages and stopped within budget
\* at the floor; the second was applied to its result.
C5_Witness ==
    /\ tpc = "retrimmed"
    /\ Len(messages) = 4
    /\ Len(trimmed) = 2
    /\ count_tokens(trimmed) <= Available
    /\ HasNonSystem(trimmed)

\* C6: token monotonicity.  count_tokens(trim_history(h, b)) <=
\* count_tokens(h), and count_tokens(h + [m]) >= count_tokens(h).
C6_TokenMonotone ==
    /\ tpc /= "input" => count_tokens(trimmed) <= count_tokens(messages)
    /\ tpc = "extended" => count_tokens(extended) >= count_tokens(messages)

\* Trimming lowered the count, and a message was appended to a History
\* ending in a longer one.
C6_Witness ==
    /\ tpc = "extended"
    /\ count_tokens(trimmed) < count_tokens(messages)
    /\ Len(messages) >= 1
    /\ Len(messages[Len(messages)].content)
          > Len(extended[Len(extended)].content)

\* C7: ledger monotonicity.  Over rounds, extensions and the summary pass, no
\* step lowers total_prompt_tokens or total_completion_tokens.
C7_LedgerMonotone ==
    [][ /\ total_prompt_tokens' >= total_prompt_tokens
        /\ total_completion_tokens' >= total_completion_tokens ]_vars

\* A discussion of two rounds and its summary pass are over, and both
\* counters were raised.
C7_Witness ==
    /\ pc = "done"
    /\ cumulative_round = 2
    /\ total_prompt_tokens > 0
    /\ total_completion_tokens > 0

Systems(msgs) == SelectSeq(msgs, LAMBDA x : x.role = "system")

\* C8: System-message invariant.  In every reachable state every agent's
\* History holds exactly one System message, and it is at index 0.
C8_OneSystemMessageFirst ==
    \A m \in DOMAIN history :
        /\ Len(history[m]) >= 1
        /\ history[m][1].role = "system"
        /\ Len(Systems(history[m])) = 1

\* After a guided round, a trim that removed A's oldest prompt, and the
\* summary pass, the discussion is over.
C8_Witness ==
    /\ pc = "done"
    /\ cumulative_round = 2
    /\ human_input /= <<>>
    /\ Len(history["A"]) >= 2
    /\ history["A"][2].role = "assistant"

\* C9: History structure.  Every History has length >= 1 at all times, and a
\* step leaves it as it is, appends one message at its end, or (trimming)
\* removes messages and leaves the survivors in order and unchanged.
C9_HistoryStructure ==
    /\ [](\A m \in DOMAIN history : Len(history[m]) >= 1)
    /\ [][ \A m \in DOMAIN history :
            \/ history'[m] = history[m]
            \/ /\ Len(history'[m]) = Len(history[m]) + 1
               /\ SubSeq(history'[m], 1, Len(history[m])) = history[m]
            \/ /\ pc \in {"trim", "sum_trim"}
               /\ Len(history'[m]) < Len(history[m])
               /\ IsSubseq(history'[m], history[m]) ]_vars

\* In round 2 the trim has just removed two messages from the middle of A's
\* History: the System message and the new prompt are left.
C9_Witness ==
    /\ pc = "submit"
    /\ round.round_idx = 2
    /\ Len(history["A"]) = 2
    /\ history["A"][2].content[1] = "DISCUSS"

InRound == pc \in {"build", "prompt", "trim", "commit", "render"}
              \/ (pc \in {"submit", "collect"} /\ caller = "run_round")

\* C10: extension with guidance.  After an extension answered with E >= 1
\* extra rounds and non-empty guidance, total_rounds is asked_at + E, the
\* round started at once (index asked_at + 1) carries the guidance, every other round run before the next
\* extension decision carries none, these rounds have the indices asked_at + 1
\* .. asked_at + E, and the next extension decision is reached after exactly
\* E rounds.
C10_GuidedExtension ==
    (human_input /= <<>> /\ extra >= 1) =>
        /\ total_rounds = asked_at + extra
        /\ pc \notin {"start", "summary", "sum_prompt", "sum_trim",
                      "sum_commit", "stats", "done"}
             => /\ cumulative_round >= asked_at + 1
                /\ cumulative_round <= asked_at + extra
        /\ InRound
             => /\ round.round_idx = cumulative_round
                /\ (round.human_input /= <<>>)
                      <=> (round.round_idx = asked_at + 1)
                /\ round.human_input /= <<>> => round.human_input = human_input
        /\ pc = "ask" => cumulative_round = asked_at + extra

\* Asked with no round run yet for 2 extra rounds with guidance: the guided
\* round 1 and the un-guided round 2 were run and the next decision is due.
C10_Witness ==
    /\ pc = "ask"
    /\ human_input /= <<>>
    /\ extra = 2
    /\ asked_at = 0
    /\ cumulative_round = 2

\* The kind of the prompt appended last to model m's History.
LastPromptKind(m) == history[m][Len(history[m])].content[1]

OutcomeOf(f) ==
    IF f.ok THEN f.result ELSE <<FailureMarker(f.error), 0, 0>>

\* C12: gateway failure containment.  Whatever subset of the requests of a
\* round fails, get_batch_completions returns to run_round, and run_round
\* goes on to its update and render steps, only when every dispatched
\* request has succeeded or failed and was collected; results then holds
\* exactly one outcome per dispatched agent, the reply of a request that
\* succeeded or the failure marker of one that failed.
C12_FailureContained ==
    pc \in {"commit", "render", "sum_commit"} =>
        /\ Len(futures) = N
        /\ \A k \in 1..N :
              /\ futures[k].model_id = chosen_models[k]
              /\ futures[k].state = "collected"
              /\ DictHas(results, futures[k].model_id)
        /\ Len(results) = Cardinality(Range(chosen_models))
        /\ \A j \in 1..Len(results) :
              \E k \in 1..N :
                 /\ futures[k].model_id = results[j].k
                 /\ results[j].v = OutcomeOf(futures[k])

\* Round 1 of two agents: both requests failed, the round was committed and
\* rendered, and round 2 is being built.
C12_Witness ==
    /\ pc = "build"
    /\ round.round_idx = 2
    /\ chosen_models = <<"A", "B">>
    /\ \A k \in 1..Len(futures) : ~futures[k].ok
    /\ Len(results) = 2

IsAgentHeader(l) == Len(l) = 2 /\ l[1] = "###" /\ l[2] /= "Human"

\* The indices of the agent sub-section headers in a run of Transcript lines.
HeaderIndices(ls) ==
    SelectSeq([j \in 1..Len(ls) |-> j], LAMBDA j : IsAgentHeader(ls[j]))

\* A bracketed failure notice that holds the error description e.
IsFailureNotice(content, e) ==
    /\ Len(content) >= 3
    /\ content[1] = "[request failed:"
    /\ content[Len(content)] = "]"
    /\ \E j \in 2..(Len(content) - 1) : content[j] = e

\* C13: the Transcript section run_round appends for a round holds exactly
\* one agent sub-section per participant, in participant order, whether the
\* agent's request failed or not; the sub-section of an agent whose requests
\* of the round all failed shows a bracketed failure notice holding the error
\* description; and run_round returns to run_discussion, which goes on.
C13_FailedAgentRendered ==
    [][ pc = "render" =>
          LET sec == SubSeq(lines', Len(lines) + 1, Len(lines'))
              at  == HeaderIndices(sec)
          IN /\ SubSeq(lines', 1, Len(lines)) = lines
             /\ Len(at) = N
             /\ \A j \in 1..N :
                   /\ sec[at[j]][2] = chosen_models[j]
                   /\ (\A k \in 1..Len(futures) :
                          futures[k].model_id = chosen_models[j]
                             => ~futures[k].ok)
                        => IsFailureNotice(sec[at[j] + 2], GatewayError)
             /\ pc' = round.ret
      ]_vars

\* A's request failed in round 1 of 2; the notice is in the Transcript and
\* the discussion went on to its end.
C13_Witness ==
    /\ pc = "done"
    /\ chosen_models = <<"A", "B">>
    /\ cumulative_round = 2
    /\ \E j \in 1..Len(lines) :
          /\ lines[j] = <<"###", "A">>
          /\ lines[j + 2] = <<"[request failed:", GatewayError, "]">>
          /\ lines[j + 4] = <<"###", "B">>
          /\ lines[j + 6][1] = "reply"
          /\ \E q \in 1..j : lines[q] = <<"##", "round", "1", "/", "2">>

IsPrefix(a, b) == Len(a) <= Len(b) /\ SubSeq(b, 1, Len(a)) = a

\* The text of a line buffer: its lines with a newline between two of them.
RECURSIVE TextOf(_)
TextOf(ls) ==
    IF ls = <<>> THEN <<>>
    ELSE IF Len(ls) = 1 THEN ls[1]
    ELSE TextOf(SubSeq(ls, 1, Len(ls) - 1)) \o <<"\n">> \o ls[Len(ls)]

\* C14: incremental persistence.  The line buffer of the Transcript only
\* grows at its end and the file only grows at its end; when a round has been
\* committed (run_round has returned to run_discussion) and when the
\* statistics block has been added, the file holds the text of the whole
\* line buffer.
C14_IncrementalPersistence ==
    /\ [][ IsPrefix(lines, lines') /\ IsPrefix(file, file') ]_vars
    /\ []( ( \/ (round.round_idx >= 1 /\ pc \in {"for", "loop", "ask", "summary"})
             \/ pc = "done" )
           => file = TextOf(lines) )

\* Two rounds were committed: the file holds both sections and the second
\* save kept the first section where it was.
C14_Witness ==
    /\ pc = "ask"
    /\ cumulative_round = 2
    /\ file = TextOf(lines)
    /\ \E a, b \in 1..Len(file) :
          /\ a < b
          /\ file[a] = "round" /\ file[a + 1] = "1"
          /\ file[b] = "round" /\ file[b + 1] = "2"

\* The indices of the lines of ls that satisfy the head test: "## Statistics",
\* "## Final Summary", "## round ...".
StatsAt(ls) ==
    {j \in 1..Len(ls) : ls[j] = <<"##", "Statistics">>}

SummaryAt(ls) ==
    {j \in 1..Len(ls) : ls[j] = <<"##", "Final Summary">>}

RoundsAt(ls) ==
    {j \in 1..Len(ls) : Len(ls[j]) >= 2 /\ ls[j][1] = "##" /\ ls[j][2] = "round"}

IsTableLine(l) == l = <<>> \/ l[1] \in {"|", "|--|--|"}

\* C15: the statistics block.  Before run_discussion is over the Transcript
\* holds no statistics block; when it is over it holds exactly one, after
\* the summary section and every round section, with one section per round
\* run, and only the rows of the block follow its title.
C15_StatisticsOnceAtEnd ==
    /\ pc /= "done" => StatsAt(lines) = {}
    /\ pc = "done" =>
          /\ Cardinality(StatsAt(lines)) = 1
          /\ Cardinality(SummaryAt(lines)) = 1
          /\ Cardinality(RoundsAt(lines)) = cumulative_round
          /\ \A st \in StatsAt(lines) :
                /\ \A su \in SummaryAt(lines) :
                      /\ su < st
                      /\ \A r \in RoundsAt(lines) : r < su
                /\ st < Len(lines)
                /\ \A j \in (st + 1)..Len(lines) : IsTableLine(lines[j])
                /\ \E j \in (st + 1)..Len(lines) :
                      lines[j] = <<"|", "Total Rounds", "|",
                                   ToString(cumulative_round), "|">>
          /\ file = TextOf(lines)

\* A discussion of two rounds of two agents is over: two round sections,
\* the summary section and the statistics block are in the Transcript.
C15_Witness ==
    /\ pc = "done"
    /\ chosen_models = <<"A", "B">>
    /\ cumulative_round = 2
    /\ Cardinality(RoundsAt(lines)) = 2
    /\ Cardinality(StatsAt(lines)) = 1
    /\ lines[Len(lines) - 1][2] = "Total Tokens"

\* C16: template validation.  When a prompt template (system, first-round,
\* discussion, human-guidance) cannot be filled, the failure comes before
\* any gateway request of the discussion was handed to get_batch_completions.
C16_TemplateFailsBeforeDispatch ==
    pc = "failed" => futures = <<>>

Outstanding(f) == f.state \in {"queued", "running"}

\* C17: for every participant list select_models can return, the batch given
\* to get_batch_completions names each agent at most once, and no two
\* requests for the same agent are outstanding together.
C17_OneRequestPerAgent ==
    /\ pc \in {"submit", "collect"} => NoDuplicates(requests)
    /\ \A k, j \in 1..Len(futures) :
          (k /= j /\ Outstanding(futures[k]) /\ Outstanding(futures[j]))
             => futures[k].model_id /= futures[j].model_id

\* Round N (N >= 1, the last round called) is fully committed: every request
\* of its batch was resolved and collected, every agent's History ends with
\* its Assistant message, its section is the last of N round sections of the
\* Transcript, the Transcript is flushed, and its ResponseMap was returned.
RoundCommitted ==
    /\ Len(futures) = N
    /\ \A k \in 1..N : futures[k].state = "collected"
    /\ \A m \in DOMAIN history :
          history[m][Len(history[m])].role = "assistant"
    /\ Cardinality(RoundsAt(lines)) = round.round_idx
    /\ file = TextOf(lines)
    /\ last_responses = responses

\* C18: strictly sequential rounds.  The step that starts building the
\* prompts of a round (an ordinary one or a guided one), or of the summary
\* pass, after a round N is taken only when round N is fully committed; and
\* while the prompts of round N + 1 are built no request of round N is
\* outstanding and N round sections are in the Transcript.
C18_SequentialRounds ==
    /\ [][ ( /\ round.round_idx >= 1
             /\ \/ (pc' = "build" /\ round'.round_idx /= round.round_idx)
                \/ (pc' = "sum_prompt" /\ pc /= "sum_trim") )
           => /\ RoundCommitted
              /\ pc' = "build" => round'.round_idx = round.round_idx + 1
      ]_vars
    /\ []( (pc \in {"build", "prompt", "trim"} /\ round.round_idx >= 2)
           => /\ \A k \in 1..Len(futures) : futures[k].state = "collected"
              /\ Cardinality(RoundsAt(lines)) = round.round_idx - 1 )

\* The prompts of the guided round 2 are being built after round 1 was
\* committed with one request failed.
C18_Witness ==
    /\ pc = "build"
    /\ i = 1
    /\ round.round_idx = 2
    /\ round.human_input /= <<>>
    /\ chosen_models = <<"A", "B">>
    /\ Cardinality(RoundsAt(lines)) = 1
    /\ futures[1].state = "collected" /\ ~futures[1].ok
    /\ futures[2].state = "collected" /\ futures[2].ok

\* C19: round well-formedness.  Every round run_discussion calls, whatever
\* the initial round count and the extension answers (E >= 0, with or
\* without guidance), has 1 <= index <= total_rounds and
\* remaining = total_rounds - index >= 0.
C19_RoundWellFormed ==
    InRound =>
        /\ 1 <= round.round_idx
        /\ round.round_idx <= round.total_rounds
        /\ round.total_rounds - round.round_idx >= 0

\* C20: trim termination and postcondition.  For every History and budget,
\* trim_history returns after removing at most len(history) - 2 messages
\* (none from a History of 2 or fewer), and its result is within
\* max_context - response_tokens, or has at most 2 messages, or holds no
\* non-System message.
C20_TrimPostcondition ==
    tpc /= "input" =>
        /\ Len(trimmed) <= Len(messages)
        /\ Len(messages) - Len(trimmed)
              <= (IF Len(messages) > 2 THEN Len(messages) - 2 ELSE 0)
        /\ \/ count_tokens(trimmed) <= Available
           \/ Len(trimmed) <= 2
           \/ ~HasNonSystem(trimmed)

\* The degenerate return: the only non-System message of a four-message
\* History was removed and three System messages are left, over budget.
C20_Witness ==
    /\ tpc = "trimmed"
    /\ Len(messages) = 4
    /\ HasNonSystem(messages)
    /\ Len(trimmed) = 3
    /\ ~HasNonSystem(trimmed)
    /\ count_tokens(trimmed) > Available

\* msgs without its k oldest non-System messages.
RECURSIVE DropOldest(_, _)
DropOldest(msgs, k) ==
    IF k = 0 \/ msgs = <<>> THEN msgs
    ELSE IF Head(msgs).role = "system"
         THEN <<Head(msgs)>> \o DropOldest(Tail(msgs), k)
         ELSE DropOldest(Tail(msgs), k - 1)

\* C21: greedy oldest-first eviction.  The result of trim_history is its
\* input without its k oldest non-System messages, for the number k of
\* messages removed; k is minimal: when k > 0 the input without only its
\* k - 1 oldest non-System messages is still over the budget; and an input
\* within the budget is returned unchanged.
C21_OldestFirst ==
    tpc /= "input" =>
        LET k == Len(messages) - Len(trimmed) IN
        /\ k >= 0
        /\ trimmed = DropOldest(messages, k)
        /\ k > 0 => count_tokens(DropOldest(messages, k - 1)) > Available
        /\ count_tokens(messages) <= Available => trimmed = messages

\* Two messages were evicted around a System message in second place, and
\* the result fits the budget: the newest message is the one kept.
C21_Witness ==
    /\ tpc = "trimmed"
    /\ Len(messages) = 4
    /\ messages[1].role /= "system"
    /\ messages[2].role = "system"
    /\ messages[3] /= messages[4]
    /\ trimmed = <<messages[2], messages[4]>>
    /\ count_tokens(trimmed) <= Available

Oversized(msgs) == count_tokens(msgs) > max_tokens - response_tokens

\* C22: exhausted trimming is not fatal.  When the History of an agent is
\* still over the budget after trim_history in run_round or run_summary, the
\* step raises nothing, the agent's request is enqueued like any other and
\* the loop goes on to the next agent or to the dispatch; and every request
\* handed to the gateway carries the agent's whole History, oversized or not.
C22_OversizedDispatched ==
    /\ [][ (pc = "trim" \/ pc = "sum_trim") =>
             ( /\ pc' /= "failed"
               /\ requests' = Append(requests, chosen_models[i])
               /\ i' = i + 1
               /\ pc' = (IF i = N THEN "submit"
                         ELSE IF pc = "trim" THEN "build" ELSE "sum_prompt") )
         ]_vars
    /\ []( pc = "collect" =>
             \A k \in 1..Len(futures) :
                futures[k].state /= "queued"
                   => futures[k].msgs = history[futures[k].model_id] )

\* Round 1 of two agents under the smallest budget: A's History of two
\* messages was over the budget, its request was sent and answered, and the
\* round has been committed for both agents.
C22_Witness ==
    /\ pc = "render"
    /\ chosen_models = <<"A", "B">>
    /\ round.round_idx = 1
    /\ Len(futures[1].msgs) = 2
    /\ Oversized(futures[1].msgs)
    /\ futures[1].ok
    /\ futures[2].ok
    /\ Len(history["A"]) = 3
    /\ Len(history["B"]) = 3

\* C23: prompt kind selection.  The prompt run_round appends for an agent is
\* a User message; it is the First-round prompt if and only if the round
\* index is 1 and last_responses is empty, and otherwise the Discussion
\* prompt, whose blocks quote the other agents of the ResponseMap the
\* previous round returned.  The round's arguments, on which the choice
\* depends, are the same for all agents of the round.
C23_PromptKind ==
    /\ [][ pc = "prompt" =>
             LET m   == chosen_models[i]
                 new == history'[m][Len(history'[m])]
             IN /\ Len(history'[m]) = Len(history[m]) + 1
                /\ new.role = "user"
                /\ new.content[1] \in {"FIRST", "DISCUSS"}
                /\ (new.content[1] = "FIRST")
                      <=> (round.round_idx = 1 /\ last_responses = <<>>)
                /\ new.content[1] = "DISCUSS"
                      => /\ Range(BlockIds(new.content))
                              = DictKeys(last_responses) \ {m}
                         /\ \A c \in DictKeys(last_responses) \ {m} :
                               IsSubseq(DictGet(last_responses, c), new.content)
         ]_vars
    /\ []( InRound => round.last_responses = last_responses )
    /\ [][ (InRound /\ pc /= "render") => round' = round ]_vars

\* Round 2 of two agents: B's Discussion prompt, quoting A, has just been
\* appended after A's, and both Histories hold the First-round prompt of
\* round 1.
C23_Witness ==
    /\ pc = "trim"
    /\ i = 2
    /\ round.round_idx = 2
    /\ chosen_models = <<"A", "B">>
    /\ max_tokens = 200
    /\ LastPromptKind("B") = "DISCUSS"
    /\ BlockIds(history["B"][Len(history["B"])].content) = <<"A">>
    /\ LastPromptKind("A") = "DISCUSS"
    /\ history["A"][2].content[1] = "FIRST"
    /\ history["B"][2].content[1] = "FIRST"

IsGuidance(x) == x.role = "user" /\ x.content[1] = "HUMAN"

\* The number of Human-guidance messages of a History.
GuidanceCount(msgs) == Len(SelectSeq(msgs, IsGuidance))

\* The number of rounds run with guidance so far, the current one included:
\* the sections labelled "(with guidance)" and the round being built.
GuidedRounds ==
    Cardinality({j \in RoundsAt(lines) :
                    lines[j][Len(lines[j])] = "(with guidance)"})
      + (IF InRound /\ pc /= "render" /\ round.human_input /= <<>>
         THEN 1 ELSE 0)

\* C24: guidance injection.  When the prompts of a round are all built (and
\* no History was ever trimmed), the History of every agent holds exactly
\* one Human-guidance User message per round run with guidance, each
\* directly followed by the prompt of its round, and so none for a round run
\* without guidance.
C24_GuidanceOncePerAgent ==
    (pc = "submit" /\ caller = "run_round" /\ max_tokens = 200) =>
        \A m \in DOMAIN history :
            /\ GuidanceCount(history[m]) = GuidedRounds
            /\ \A j \in 1..Len(history[m]) :
                  IsGuidance(history[m][j])
                     => /\ j < Len(history[m])
                        /\ history[m][j + 1].role = "user"
                        /\ history[m][j + 1].content[1] \in {"FIRST", "DISCUSS"}

\* C25: build-before-dispatch barrier.  When the requests of a round are
\* submitted, and until the batch has returned, the prompt of every agent
\* has been appended and trimmed (one request per participant, every History
\* ending with its User prompt); no History changes from the submission to
\* the return of the batch; and an Assistant message is appended only when
\* every request of the batch was resolved and collected.
C25_BuildBeforeDispatch ==
    /\ []( ((pc = "submit" \/ pc = "collect") /\ caller = "run_round")
           => /\ requests = chosen_models
              /\ i = N + 1
              /\ \A m \in DOMAIN history :
                    /\ history[m][Len(history[m])].role = "user"
                    /\ LastPromptKind(m) \in {"FIRST", "DISCUSS"}
                    /\ ~Oversized(history[m]) \/ Len(history[m]) <= 2 )
    /\ [][ (pc = "submit" \/ pc = "collect") => history' = history ]_vars
    /\ [][ (\E m \in DOMAIN history :
               /\ Len(history'[m]) = Len(history[m]) + 1
               /\ history'[m][Len(history'[m])].role = "assistant")
           => /\ pc = "commit"
              /\ Len(futures) = N
              /\ \A k \in 1..N : futures[k].state = "collected" ]_vars

\* Round 2 of two agents: both prompts are built, A's request was resolved
\* and collected while B's is still running, and neither History has its
\* round-2 Assistant message yet.
C25_Witness ==
    /\ pc = "collect"
    /\ caller = "run_round"
    /\ round.round_idx = 2
    /\ chosen_models = <<"A", "B">>
    /\ max_tokens = 200
    /\ futures[1].state = "collected"
    /\ futures[2].state = "running"
    /\ Len(history["A"]) = 4
    /\ Len(history["B"]) = 4
    /\ LastPromptKind("A") = "DISCUSS"
    /\ LastPromptKind("B") = "DISCUSS"

\* C26: bounded fan-out.  While get_batch_completions runs, at most
\* max_workers gateway requests are in flight, also for a batch of more
\* requests than workers; and every request of the batch is started,
\* resolved and collected: the batch returns to its caller.
C26_BoundedFanOut ==
    /\ [](Cardinality(Running) <= max_workers)
    /\ \A k \in 1..3 :
          ( /\ pc = "collect"
            /\ Len(futures) >= k
            /\ futures[k].state = "queued" )
          ~> ( /\ Len(futures) >= k
               /\ futures[k].state = "collected"
               /\ DictHas(results, futures[k].model_id) )
    /\ (pc = "collect") ~> (pc \in {"commit", "sum_commit"})

\* A batch of three requests with two workers: the third request was started
\* only after the first was resolved, and two are in flight.
C26_Witness ==
    /\ pc = "collect"
    /\ Len(futures) = 3
    /\ Len(futures) > max_workers
    /\ futures[1].state = "collected"
    /\ futures[2].state = "running"
    /\ futures[3].state = "running"
    /\ Cardinality(Running) = max_workers

\* C27: single writer.  While a batch is in its concurrent phase (from the
\* submission to the return of get_batch_completions) no step, of a worker
\* or of the collecting loop, changes the ledger, the Transcript, its file
\* or a History; the ledger and the Transcript change only in steps of the
\* control thread taken when every request submitted so far was resolved
\* and collected.
C27_SingleWriter ==
    /\ [][ pc = "collect"
             => UNCHANGED <<total_prompt_tokens, total_completion_tokens,
                            lines, file, history>> ]_vars
    /\ [][ (<<total_prompt_tokens, total_completion_tokens, lines, file>>'
                /= <<total_prompt_tokens, total_completion_tokens, lines, file>>)
           => /\ pc \in {"commit", "render", "summary", "sum_commit", "stats"}
              /\ \A k \in 1..Len(futures) : futures[k].state = "collected"
      ]_vars

\* Round 2: the ledger holds round 1's usage; A's worker has returned, B's
\* is running, and nothing was added yet for round 2.
C27_Witness ==
    /\ pc = "collect"
    /\ round.round_idx = 2
    /\ chosen_models = <<"A", "B">>
    /\ futures[1].state = "done" /\ futures[1].ok
    /\ futures[2].state = "running"
    /\ total_prompt_tokens > 0
    /\ Cardinality(RoundsAt(lines)) = 1

\* The agents of a participant list, in the order of their first entry.
Agents(chosen) ==
    LET first == SelectSeq([j \in 1..Len(chosen) |-> j],
                     LAMBDA j : \A k \in 1..(j - 1) : chosen[k] /= chosen[j])
    IN [j \in 1..Len(first) |-> chosen[first[j]]]

\* The blocks the claim describes for the agents ys: one per agent other
\* than X that has an entry in R, carrying separator, identifier and R[Y].
RECURSIVE OthersBlocks(_, _, _)
OthersBlocks(ys, R, X) ==
    IF ys = <<>> THEN <<>>
    ELSE LET Y == Head(ys)
             rest == OthersBlocks(Tail(ys), R, X)
         IN IF Y /= X /\ Y \in DictKeys(R)
            THEN << <<"---", Y, ":">> \o DictGet(R, Y) >> \o rest
            ELSE rest

\* The blocks one after the other, a blank line between two of them.
RECURSIVE Concatenation(_)
Concatenation(blocks) ==
    IF blocks = <<>> THEN <<>>
    ELSE IF Len(blocks) = 1 THEN Head(blocks)
    ELSE Head(blocks) \o <<"/">> \o Concatenation(Tail(blocks))

\* C28: for every ResponseMap R and agent X, _build_others_text(R, X) is the
\* concatenation, in participant-list order, of one block per agent Y with
\* Y /= X and Y in R, each block carrying a separator, Y's identifier and
\* R[Y]; X's own text is never included, agents absent from R contribute
\* nothing, and the result is empty when there is no such Y.
C28_OthersText ==
    opc = "built" =>
        /\ others_text =
              Concatenation(OthersBlocks(Agents(others_chosen), others_last,
                                         others_exclude))
        /\ others_exclude \notin Range(BlockIds(others_text))
        /\ Range(BlockIds(others_text)) \subseteq DictKeys(others_last)
        /\ ( Range(others_chosen) \cap DictKeys(others_last)
               \subseteq {others_exclude} ) => others_text = <<>>

\* run_discussion calls run_round in this step.
RoundCalled == pc \in {"for", "ask"} /\ pc' = "build"

\* C29: the rounds run_discussion runs have the consecutive indices 1, 2,
\* 3, ... (main-loop rounds, extensions and guided rounds alike, none
\* skipped or repeated), and the last_responses passed to a round is the map
\* the round before it returned, the empty map for the first round run.
C29_RoundSequencing ==
    [][ RoundCalled =>
          /\ round'.round_idx = round.round_idx + 1
          /\ round'.round_idx = cumulative_round'
          /\ IF round.ret = "none"
             THEN round'.round_idx = 1 /\ round'.last_responses = <<>>
             ELSE round'.last_responses = responses
      ]_vars

C29_Witness ==
    /\ pc = "build"
    /\ round.round_idx = 2
    /\ round.human_input /= <<>>
    /\ round.last_responses /= <<>>
    /\ round.last_responses = last_responses

\* C30: whenever run_discussion is at the extension decision point (it asks
\* whether to continue), cumulative_round = total_rounds, for any initial
\* round count >= 0 and any earlier extension answers with E >= 0, with or
\* without guidance.
C30_DecisionPoint == pc = "ask" => cumulative_round = total_rounds

\* The control thread is inside run_summary or past it.
InSummary ==
    \/ pc \in {"summary", "sum_prompt", "sum_trim", "sum_commit", "stats",
               "done"}
    \/ pc \in {"submit", "collect"} /\ caller = "run_summary"

IsSummaryPrompt(x) == x.role = "user" /\ x.content = <<"SUMMARY">>

SummaryPromptCount(msgs) == Len(SelectSeq(msgs, IsSummaryPrompt))

\* What C31 says of one step of the program.
SummaryPassStep ==
    /\ (pc' = "summary" /\ pc /= "summary")
        => (pc = "ask" /\ SummaryAt(lines) = {})
    /\ Cardinality(SummaryAt(lines')) <= 1
    /\ pc = "sum_trim"
        => LET m == chosen_models[i] IN
           history'[m] = trim_history(history[m], max_tokens)
    /\ (pc = "submit" /\ caller = "run_summary")
        => /\ [k \in 1..Len(futures') |-> futures'[k].model_id]
                = chosen_models
           /\ \A m \in Range(chosen_models) :
                 SummaryPromptCount(history[m]) = 1
    /\ pc' \in {"stats", "done"}
        => \A m \in Range(chosen_models) :
              SummaryPromptCount(history'[m]) = 1
    /\ InSummary
        => /\ InSummary'
           /\ UNCHANGED <<last_responses, responses, round,
                          cumulative_round>>

\* C31: run_summary is executed once per discussion and only after the
\* driver declined to extend; it appends exactly one Summary User message to
\* every agent's History, trims each History with the budget of a normal
\* round, dispatches all agents in one concurrent batch, and its results are
\* fed into no ResponseMap and start no further round.
C31_SummaryPass == [][SummaryPassStep]_vars

\* Every request of the current batch for model_id failed / succeeded.
AllFailed(model_id) ==
    \A k \in 1..Len(futures) :
        futures[k].model_id = model_id => ~futures[k].ok

AllSucceeded(model_id) ==
    \A k \in 1..Len(futures) :
        futures[k].model_id = model_id => futures[k].ok

\* C32: when an agent's summary request failed, run_summary raises no error,
\* the TokenLedger is not increased for that agent, the summaries of the
\* other agents are recorded in the Transcript, and the statistics block is
\* still emitted and the Transcript saved.
C32_SummaryFailureIsolation ==
    /\ [][ pc = "sum_commit" =>
             LET m == chosen_models[i] IN
             /\ pc' \in {"sum_commit", "stats"}
             /\ AllFailed(m) => UNCHANGED ledgerv
             /\ AllSucceeded(m) =>
                   lines' = lines \o << <<"###", m>>, <<>>,
                                        FutureOf(m).result[1], <<>> >>
         ]_vars
    /\ ( pc = "sum_commit" /\ \E k \in 1..Len(futures) : ~futures[k].ok )
         ~> ( /\ pc = "done"
              /\ Cardinality(StatsAt(lines)) = 1
              /\ file = TextOf(lines) )

\* B's summary request failed, A's and C's succeeded: their summaries and
\* the statistics block are in the saved Transcript.
C32_Witness ==
    /\ pc = "done"
    /\ caller = "run_summary"
    /\ ~FutureOf("B").ok
    /\ FutureOf("A").ok /\ FutureOf("C").ok
    /\ \E a, c, s \in 1..Len(lines) :
          /\ a < c /\ c < s
          /\ a > CHOOSE j \in SummaryAt(lines) : TRUE
          /\ lines[a] = <<"###", "A">>
          /\ lines[a + 2] = FutureOf("A").result[1]
          /\ lines[c] = <<"###", "C">>
          /\ lines[c + 2] = FutureOf("C").result[1]
          /\ lines[s] = <<"##", "Statistics">>
    /\ file = TextOf(lines)

\* The statistics row that reports n rounds.
TotalRoundsRow(n) == <<"|", "Total Rounds", "|", ToString(n), "|">>

\* C33: when the user at some point answers that the discussion is not to be
\* extended and every gateway request returns or fails, run_discussion
\* reaches its end, having run the summary pass once and emitted statistics
\* whose round count is the number of rounds run (cumulative_round, guided
\* rounds included).
C33_DriverTermination ==
    /\ <>(pc = "done")
    /\ [](pc = "done" =>
            /\ Cardinality(SummaryAt(lines)) = 1
            /\ Cardinality(StatsAt(lines)) = 1
            /\ cumulative_round = Cardinality(RoundsAt(lines))
            /\ \E j \in 1..Len(lines) :
                  lines[j] = TotalRoundsRow(Cardinality(RoundsAt(lines)))
            /\ \A j \in 1..Len(lines), n \in 0..(MaxRounds + 2) :
                  lines[j] = TotalRoundsRow(n)
                      => n = Cardinality(RoundsAt(lines)))

\* A discussion of no initial round, extended by a guided round with E = 0
\* and then declined, is over: one round was run and reported.
C33_Witness ==
    /\ pc = "done"
    /\ cumulative_round = 1
    /\ total_rounds = 0
    /\ human_input /= <<>>
    /\ Cardinality(RoundsAt(lines)) = 1
    /\ \E j \in 1..Len(lines) : lines[j] = TotalRoundsRow(1)

\* The sum of the encoded lengths of the contents of msgs.
RECURSIVE ContentSum(_)
ContentSum(msgs) ==
    IF msgs = <<>> THEN 0
    ELSE ContentSum(SubSeq(msgs, 1, Len(msgs) - 1))
            + Len(msgs[Len(msgs)].content)

\* msgs with every role replaced by role.
Recast(msgs, role) == [j \in 1..Len(msgs) |-> Msg(role, msgs[j].content)]

\* C34: for every message sequence, count_tokens(messages) is 2 plus, for
\* each message, 4 plus the encoded length of its content; the roles do not
\* affect it, and count_tokens([]) = 2.
C34_TokenFormula ==
    tpc = "counted" =>
        /\ token_count = 2 + 4 * Len(messages) + ContentSum(messages)
        /\ \A role \in Roles :
              count_tokens(Recast(messages, role)) = token_count
        /\ messages = <<>> => token_count = 2

\* A History of three messages of different roles, with and without
\* content: 2 + 3 * 4 + 6 tokens.
C34_Witness ==
    /\ tpc = "counted"
    /\ Len(messages) = 3
    /\ messages[1].role = "system" /\ messages[1].content /= <<>>
    /\ messages[2].role = "user" /\ messages[2].content = <<>>
    /\ messages[3].role = "assistant" /\ messages[3].content /= <<>>
    /\ token_count = 20

\* The usage the gateway reported for the request of list entry j of the
\* current batch: 0 when the request failed.
PromptUsage(j) == IF futures[j].ok THEN futures[j].result[2] ELSE 0

CompletionUsage(j) == IF futures[j].ok THEN futures[j].result[3] ELSE 0

\* What C35 says of one step: both counters start at 0 and move only in the
\* update loops, by the usage of the request the iteration is about.
LedgerStep ==
    IF pc \in {"commit", "sum_commit"}
    THEN /\ total_prompt_tokens' = total_prompt_tokens + PromptUsage(i)
         /\ total_completion_tokens' =
               total_completion_tokens + CompletionUsage(i)
    ELSE UNCHANGED ledgerv

\* C35: total_prompt_tokens and total_completion_tokens are exactly the sums
\* of the prompt and completion usage of the gateway requests that succeeded
\* in the committed rounds and in the summary pass: a failed request adds 0,
\* and no successful request is counted twice or left out.
C35_LedgerExact ==
    /\ (pc = "start" => total_prompt_tokens = 0 /\ total_completion_tokens = 0)
    /\ [][LedgerStep]_vars

\* The prompt run_round or run_summary built for model_id in this batch.
PromptBuilt(model_id) ==
    IF caller = "run_summary" THEN Msg("user", <<"SUMMARY">>)
    ELSE Msg("user",
             IF round.round_idx = 1 /\ round.last_responses = <<>>
             THEN <<"FIRST", ToString(round.round_idx),
                    ToString(round.total_rounds),
                    ToString(round.total_rounds - round.round_idx),
                    model_id, topic>>
             ELSE <<"DISCUSS", ToString(round.round_idx),
                    ToString(round.total_rounds),
                    ToString(round.total_rounds - round.round_idx)>>
                  \o build_others_text(chosen_models, round.last_responses,
                                       model_id)
                  \o <<"CONTINUE">>)

\* C36: for every agent, in every round and in the summary pass, whatever
\* the token budget, the message sequence handed to the gateway starts with
\* the agent's System message and ends with the User prompt built for this
\* round (or the Summary prompt): trimming never evicts the prompt that was
\* just appended.
C36_RequestShape ==
    [][ \A k \in 1..Len(futures) :
          ( /\ Len(futures') = Len(futures)
            /\ futures[k].state = "queued"
            /\ futures'[k].state = "running" )
          => LET sent == futures'[k].msgs
                 m == futures[k].model_id
             IN /\ Len(sent) >= 2
                /\ sent[1] = Msg("system",
                                 <<"SYSTEM", m, topic>> \o chosen_models
                                    \o <<"RULES">>)
                /\ sent[Len(sent)] = PromptBuilt(m)
                /\ \A j \in 2..Len(sent) : sent[j].role /= "system"
      ]_vars

\* Round 2 under a budget that holds two messages only: the request in
\* flight is the System message and the round's Discussion prompt, the
\* messages of round 1 having been trimmed away.
C36_Witness ==
    /\ pc = "collect"
    /\ caller = "run_round"
    /\ round.round_idx = 2
    /\ \E k \in 1..Len(futures) :
          /\ futures[k].state = "running"
          /\ Len(futures[k].msgs) = 2
          /\ futures[k].msgs[1].role = "system"
          /\ futures[k].msgs[2] = PromptBuilt(futures[k].model_id)
          /\ count_tokens(futures[k].msgs) > max_tokens - response_tokens

\* What C37 says of one step: a request of a guided round that a worker
\* takes holds the guidance message right before the round's prompt.
GuidanceStep ==
    \A k \in 1..Len(futures) :
       ( /\ Len(futures') = Len(futures)
         /\ futures[k].state = "queued"
         /\ futures'[k].state = "running"
         /\ caller = "run_round"
         /\ round.human_input /= <<>> )
       => LET sent == futures'[k].msgs IN
          /\ Len(sent) >= 3
          /\ sent[Len(sent) - 1] =
                Msg("user", <<"HUMAN">> \o round.human_input \o <<"ADJUST">>)
          /\ sent[Len(sent)] = PromptBuilt(futures[k].model_id)

\* C37: in a round run with guidance, for every agent and whatever the token
\* budget, the message sequence dispatched to the gateway holds the
\* Human-guidance message, immediately before the round's prompt.
C37_GuidanceDelivered == [][GuidanceStep]_vars

\* The gateway outcomes of the batch are given per agent: the requests for
\* one agent all succeed or all fail.
OutcomesPerAgent ==
    \A a, b \in 1..Len(futures) :
        futures[a].model_id = futures[b].model_id
            => futures[a].ok = futures[b].ok

\* What the gateway call for model_id came to: (text, prompt tokens,
\* completion tokens), the bracketed notice and no usage for a failure.
AgentOutcome(model_id) ==
    LET f == FutureOf(model_id) IN
    IF f.ok THEN f.result
    ELSE << <<"[request failed:", f.error, "]">>, 0, 0 >>

\* The sub-sections of a round for the agents ids, from their outcomes.
RECURSIVE SectionsOf(_)
SectionsOf(ids) ==
    IF ids = <<>> THEN <<>>
    ELSE << <<"###", Head(ids)>>, <<>>, AgentOutcome(Head(ids))[1], <<>> >>
            \o SectionsOf(Tail(ids))

\* What C38 says of one step after the batch: the step's effect on the
\* Histories, the ledger, the ResponseMap and the Transcript is determined by
\* their values before it, the participant list and the agents' outcomes.
DeterminismStep ==
    /\ (pc = "commit" /\ OutcomesPerAgent) =>
          LET m == chosen_models[i]
              o == AgentOutcome(m)
          IN /\ history' = [history EXCEPT ![m] =
                               Append(@, Msg("assistant", o[1]))]
             /\ total_prompt_tokens' = total_prompt_tokens + o[2]
             /\ total_completion_tokens' = total_completion_tokens + o[3]
             /\ DictKeys(responses') = DictKeys(responses) \cup {m}
             /\ \A q \in DictKeys(responses') :
                   DictGet(responses', q) =
                       IF q = m THEN o[1] ELSE DictGet(responses, q)
    /\ (pc = "render" /\ OutcomesPerAgent) =>
          /\ lines' = lines
                \o add_round_header(RoundLabel(round), round.human_input)
                \o SectionsOf(chosen_models)
                \o add_token_stats(total_prompt_tokens,
                                   total_completion_tokens)
          /\ last_responses' = responses
          /\ UNCHANGED <<history, ledgerv>>

\* C38: for a fixed participant list, fixed prior state and fixed per-agent
\* gateway outcomes, the state after run_round (every History, both ledger
\* counters, the returned ResponseMap and the Transcript lines) is the same
\* whatever the order in which the round's requests complete.
C38_CompletionOrderDeterminism == [][DeterminismStep]_vars

\* Round 1 of three agents was collected in the order B, A, C, B's request
\* having failed: the round is committed and rendered in list order.
C38_Witness ==
    /\ pc = "for"
    /\ round.round_idx = 1
    /\ ResultKeys = <<"B", "A", "C">>
    /\ ~FutureOf("B").ok /\ FutureOf("A").ok /\ FutureOf("C").ok
    /\ DictKeys(last_responses) = {"A", "B", "C"}
    /\ SubSeq(lines, Len(lines) - 3 - 12, Len(lines) - 4)
          = SectionsOf(<<"A", "B", "C">>)
    /\ total_prompt_tokens =
          FutureOf("A").result[2] + FutureOf("C").result[2]

====
